---- MODULE Spec2Model ----
(***************************************************************************)
(* Model of N2G/plugins/data/cli_isis_data.py: the cli_isis_data plugin    *)
(* that turns parsed ISIS LSDB records into nodes and links.               *)
(*                                                                         *)
(* Python strings are sequences of one-character strings, so that          *)
(* formatting, splitting, glob matching and sorting are computed.          *)
(* Python dicts whose iteration order matters (nodes_dict, links_dict)     *)
(* are sequences of [key, value] entries in insertion order; the other     *)
(* dicts (nodes, links, lookup records) are functions whose DOMAIN is      *)
(* the set of keys present.                                                *)
(***************************************************************************)
EXTENDS Integers, Sequences, FiniteSets, TLC

VARIABLES
    add_data,        \* self.add_data
    add_connected,   \* self.add_connected
    ptp_filter,      \* self.ptp_filter
    ip_lookup_data,  \* self.ip_lookup_data
    parsed_data,     \* the (isis_pid, lsp) pairs of self.parsed_data walked so far
    nodes_dict,      \* self.nodes_dict
    links_dict,      \* self.links_dict
    graph_dict,      \* self.graph_dict
    pc,              \* the step of work() to run next
    err              \* the exception that ended work(), NoError if none

vars == <<add_data, add_connected, ptp_filter, ip_lookup_data, parsed_data,
          nodes_dict, links_dict, graph_dict, pc, err>>

----------------------------------------------------------------------------
(* Bounds *)

\* the number of LSPs one run walks
MaxLsps == 2

----------------------------------------------------------------------------
(* Python values *)

\* Python's None; no string is equal to it
None == <<"None">>

Truthy(v) == v # None /\ v # <<>>

\* str(v) as "{}".format(v) renders it
Str(v) == IF v = None THEN <<"N", "o", "n", "e">> ELSE v

\* the characters of the model in code point order
AsciiOrder ==
    <<"*", "-", ".", "/", "0", "1", "2", "3", "4", "5", "6", "7", "8", "9",
      ":", "?", "A", "B", "G", "L", "M", "N", "e", "i", "l", "n", "o", "v">>

Ord(c) == CHOOSE i \in 1..Len(AsciiOrder) : AsciiOrder[i] = c

\* s < t for Python strings
RECURSIVE StrLess(_, _)
StrLess(s, t) ==
    IF t = <<>> THEN FALSE
    ELSE IF s = <<>> THEN TRUE
    ELSE IF Head(s) = Head(t) THEN StrLess(Tail(s), Tail(t))
    ELSE Ord(Head(s)) < Ord(Head(t))

\* sorted(list) by insertion
RECURSIVE Insert(_, _)
Insert(x, sorted) ==
    IF sorted = <<>> THEN <<x>>
    ELSE IF StrLess(x, Head(sorted)) THEN <<x>> \o sorted
    ELSE <<Head(sorted)>> \o Insert(x, Tail(sorted))

RECURSIVE Sorted(_)
Sorted(list) ==
    IF list = <<>> THEN <<>> ELSE Insert(Head(list), Sorted(Tail(list)))

\* "{}:{}".format(a, b)
Format2(a, b) == Str(a) \o <<":">> \o Str(b)

\* "{}:{}:{}".format(a, b, c)
Format3(a, b, c) == Str(a) \o <<":">> \o Str(b) \o <<":">> \o Str(c)

\* "{}-{}".format(a, b)
FormatDash(a, b) == Str(a) \o <<"-">> \o Str(b)

\* s.split(sep) for a one-character separator
RECURSIVE SplitAcc(_, _, _)
SplitAcc(s, sep, cur) ==
    IF s = <<>> THEN <<cur>>
    ELSE IF Head(s) = sep THEN <<cur>> \o SplitAcc(Tail(s), sep, <<>>)
    ELSE SplitAcc(Tail(s), sep, Append(cur, Head(s)))

Split(s, sep) == SplitAcc(s, sep, <<>>)

\* s.count(c) for a one-character c
Count(s, c) == Cardinality({i \in 1..Len(s) : s[i] = c})

StartsWith(s, p) == Len(p) <= Len(s) /\ SubSeq(s, 1, Len(p)) = p

\* s.replace(old, new), old not empty
RECURSIVE Replace(_, _, _)
Replace(s, old, new) ==
    IF s = <<>> THEN <<>>
    ELSE IF StartsWith(s, old)
         THEN new \o Replace(SubSeq(s, Len(old) + 1, Len(s)), old, new)
    ELSE <<Head(s)>> \o Replace(Tail(s), old, new)

\* fnmatch.fnmatchcase(name, pat) for patterns of literals, "?" and "*"
RECURSIVE fnmatchcase(_, _)
fnmatchcase(name, pat) ==
    IF pat = <<>> THEN name = <<>>
    ELSE IF Head(pat) = "*"
         THEN \/ fnmatchcase(name, Tail(pat))
              \/ name # <<>> /\ fnmatchcase(Tail(name), pat)
    ELSE IF name = <<>> THEN FALSE
    ELSE /\ Head(pat) = "?" \/ Head(pat) = Head(name)
         /\ fnmatchcase(Tail(name), Tail(pat))

\* d.get(k, default)
Get(d, k, default) == IF k \in DOMAIN d THEN d[k] ELSE default

\* d after d.pop(k) / del d[k]
Without(d, keys) == [k \in DOMAIN d \ keys |-> d[k]]

\* d after d[k] = v
With(d, k, v) == (k :> v) @@ d

\* {**a, **b}
Merge(a, b) == b @@ a

\* json.dumps(data, sort_keys=True, ...): a string, which is no dict
json_dumps(data) == [json |-> data]

\* json.loads(text)
json_loads(text) == text.json

Range(s) == {s[i] : i \in DOMAIN s}

Last(s) == s[Len(s)]

Front(s) == SubSeq(s, 1, Len(s) - 1)

RemoveAt(s, i) == SubSeq(s, 1, i - 1) \o SubSeq(s, i + 1, Len(s))

\* list.index(x)
IndexOf(s, x) == CHOOSE i \in 1..Len(s) : s[i] = x /\ \A j \in 1..(i - 1) : s[j] # x

----------------------------------------------------------------------------
(* Exceptions *)

NoError == [type |-> "none", in |-> "", key |-> ""]

KeyError(in, key) == [type |-> "KeyError", in |-> in, key |-> key]

ValueError(in, key) == [type |-> "ValueError", in |-> in, key |-> key]

----------------------------------------------------------------------------
(* Ordered dicts: sequences of [key, value] entries in insertion order *)

EmptyDict == <<>>

HasKey(d, k) == \E i \in DOMAIN d : d[i].key = k

KeyIndex(d, k) == CHOOSE i \in DOMAIN d : d[i].key = k

\* d[k]
Item(d, k) == d[KeyIndex(d, k)].value

\* d after d[k] = v
SetItem(d, k, v) ==
    IF HasKey(d, k)
    THEN [d EXCEPT ![KeyIndex(d, k)] = [key |-> k, value |-> v]]
    ELSE Append(d, [key |-> k, value |-> v])

\* d after d.setdefault(k, v)
SetDefault(d, k, v) == IF HasKey(d, k) THEN d ELSE SetItem(d, k, v)

\* list(d.values())
Values(d) == [i \in DOMAIN d |-> d[i].value]

----------------------------------------------------------------------------
(* Graph Builder *)

_make_hash_tuple(data) ==
    Sorted(<<data["source"], data["target"], Get(data, "label", <<>>)>>)

\* _add_node without its test "not node["id"] in self.nodes_dict"
AddNodeUnchecked(nodes, node, node_data) ==
    Append(nodes,
           [key |-> node["id"],
            value |-> IF DOMAIN node_data # {} /\ add_data
                      THEN With(node, "description", json_dumps(node_data))
                      ELSE node])

\* nodes_dict after _add_node(node, node_data)
_add_node(nodes, node, node_data) ==
    IF ~HasKey(nodes, node["id"])
    THEN SetItem(nodes, node["id"],
                 IF DOMAIN node_data # {} /\ add_data
                 THEN With(node, "description", json_dumps(node_data))
                 ELSE node)
    ELSE LET stored_node == Item(nodes, node["id"]) @@ node
         IN  SetItem(nodes, node["id"],
                     IF "description" \notin DOMAIN stored_node
                        /\ DOMAIN node_data # {} /\ add_data
                     THEN With(stored_node, "description", json_dumps(node_data))
                     ELSE stored_node)

\* links_dict after _add_link(link, link_data)
_add_link(links, link, link_data) ==
    LET link_hash == _make_hash_tuple(link)
        with_key == SetDefault(links, link_hash, <<>>)
        group == Item(with_key, link_hash)
    IN  IF link \notin Range(group)
        THEN SetItem(with_key, link_hash,
                     Append(group,
                            IF DOMAIN link_data # {} /\ add_data
                            THEN With(link, "description", json_dumps(link_data))
                            ELSE link))
        ELSE with_key

\* the filter applied to the peer's address in place of the local one
PtpFilteredOnPeerIp(link) ==
    \E i \in DOMAIN ptp_filter :
        fnmatchcase(Get(link, "peer_ip", <<>>), ptp_filter[i])

\* any([fnmatchcase(link.get("local_ip", ""), p) for p in self.ptp_filter])
PtpFiltered(link) ==
    \E i \in DOMAIN ptp_filter :
        fnmatchcase(Get(link, "local_ip", <<>>), ptp_filter[i])

\* the link dictionary _process_lsp makes of one adjacency
AdjacencyLink(lsp, isis_pid, link) ==
    [source |-> lsp["hostname"],
     src_label |-> Format2(Get(link, "local_ip", Get(link, "local_intf_id", None)),
                           link["metric"]),
     label |-> Format2(isis_pid,
                       Replace(lsp["level"], <<"L", "e", "v", "e", "l", "-">>, <<"L">>)),
     target |-> link["peer_name"],
     local_intf_id |-> Get(link, "local_intf_id", None),
     peer_intf_id |-> Get(link, "peer_intf_id", None),
     peer_ip |-> Get(link, "peer_ip", None),
     local_ip |-> Get(link, "local_ip", None)]

\* link_data of one adjacency
AdjacencyData(lsp, isis_pid, link) ==
    (lsp["hostname"] :> Merge("isis_pid" :> isis_pid, link))

\* the loop over lsp.get("links", [])
RECURSIVE AddAdjacencies(_, _, _, _)
AddAdjacencies(links, lsp, isis_pid, todo) ==
    IF todo = <<>> THEN links
    ELSE AddAdjacencies(
             IF PtpFiltered(Head(todo)) THEN links
             ELSE _add_link(links, AdjacencyLink(lsp, isis_pid, Head(todo)),
                            AdjacencyData(lsp, isis_pid, Head(todo))),
             lsp, isis_pid, Tail(todo))

SubnetNode(network) ==
    [id |-> network["network"], label |-> network["network"],
     bottom_label |-> <<"S", "u", "b", "n", "e", "t">>]

SubnetLink(lsp, network) ==
    [source |-> lsp["hostname"],
     src_label |-> Format2(<<"M">>, network["metric"]),
     label |-> lsp["level"],
     target |-> network["network"]]

\* the loop over lsp.get("networks", []); st is [nodes, links]
RECURSIVE AddNetworks(_, _, _)
AddNetworks(st, lsp, todo) ==
    IF todo = <<>> THEN st
    ELSE AddNetworks(
             [nodes |-> _add_node(st.nodes, SubnetNode(Head(todo)), EmptyDict),
              links |-> _add_link(st.links, SubnetLink(lsp, Head(todo)), EmptyDict)],
             lsp, Tail(todo))

\* [nodes, links] after _process_lsp(lsp, isis_pid, device)
_process_lsp(nodes, links, lsp, isis_pid) ==
    LET routers == [nodes |-> _add_node(nodes,
                                  [id |-> lsp["hostname"],
                                   label |-> lsp["hostname"],
                                   bottom_label |-> <<"N", "o", "d", "e">>,
                                   top_label |-> lsp["rid"]],
                                  lsp),
                    links |-> AddAdjacencies(links, lsp, isis_pid,
                                             Get(lsp, "links", <<>>))]
    IN  IF add_connected
        THEN AddNetworks(routers, lsp, Get(lsp, "networks", <<>>))
        ELSE routers

----------------------------------------------------------------------------
(* Link Packer *)

\* the scan "for link_2 in links" with its test on two keys of link_2:
\* [index |-> position of the first match, 0 if none, err |-> exception raised]
RECURSIVE FindPair(_, _, _, _, _, _)
FindPair(pool, i, peer_key, local_key, local_val, peer_val) ==
    IF i > Len(pool) THEN [index |-> 0, err |-> NoError]
    ELSE IF peer_key \notin DOMAIN pool[i]
         THEN [index |-> 0, err |-> KeyError("_pack_links", peer_key)]
    ELSE IF pool[i][peer_key] # local_val
         THEN FindPair(pool, i + 1, peer_key, local_key, local_val, peer_val)
    ELSE IF local_key \notin DOMAIN pool[i]
         THEN [index |-> 0, err |-> KeyError("_pack_links", local_key)]
    ELSE IF pool[i][local_key] # peer_val
         THEN FindPair(pool, i + 1, peer_key, local_key, local_val, peer_val)
    ELSE [index |-> i, err |-> NoError]

\* the label of the combined link with the two process ids in the other order
MergedLabelSwapped(label_1, label_2) ==
    LET pid_1 == Split(label_1, ":")[1]
        level_1 == Split(label_1, ":")[2]
        pid_2 == Split(label_2, ":")[1]
    IN  Format2(IF pid_1 = pid_2 THEN pid_1 ELSE FormatDash(pid_2, pid_1), level_1)

\* the label of the combined link
MergedLabel(label_1, label_2) ==
    LET pid_1 == Split(label_1, ":")[1]
        level_1 == Split(label_1, ":")[2]
        pid_2 == Split(label_2, ":")[1]
    IN  Format2(IF pid_1 = pid_2 THEN pid_1 ELSE FormatDash(pid_1, pid_2), level_1)

\* the body of "if link_2 matches": link is the candidate without its four
\* correlation keys; [links, err] after it
CombineLinks(links, link, link_2) ==
    LET combined == With(link, "trgt_label", link_2["src_label"])
        link_hash == _make_hash_tuple(combined)
        appended == ~HasKey(links, link_hash)
                    \/ combined \notin Range(Item(links, link_hash))
    IN  IF "description" \notin DOMAIN combined
             \/ "description" \notin DOMAIN link_2
        THEN [links |-> links, err |-> KeyError("_pack_links", "description")]
        ELSE
        LET added == _add_link(links, combined,
                               Merge(json_loads(combined["description"]),
                                     json_loads(link_2["description"])))
            group == Item(added, link_hash)
        IN  IF combined["label"] = link_2["label"]
            THEN [links |-> added, err |-> NoError]
            ELSE IF Len(Split(combined["label"], ":")) # 2
                    \/ Len(Split(link_2["label"], ":")) # 2
            THEN [links |-> added, err |-> ValueError("_pack_links", "label")]
            \* link is the object just appended, so the stored link changes too
            ELSE IF appended
            THEN [links |-> SetItem(added, link_hash,
                                    [group EXCEPT ![Len(group)] =
                                        With(@, "label",
                                             MergedLabel(combined["label"],
                                                         link_2["label"]))]),
                  err |-> NoError]
            ELSE [links |-> added, err |-> NoError]

CorrelationKeys == <<"local_intf_id", "peer_intf_id", "peer_ip", "local_ip">>

\* the first of the four link.pop(key) that finds no key, 0 if none
MissingKey(link) ==
    IF \A i \in 1..4 : CorrelationKeys[i] \in DOMAIN link THEN 0
    ELSE CHOOSE i \in 1..4 :
             /\ CorrelationKeys[i] \notin DOMAIN link
             /\ \A j \in 1..(i - 1) : CorrelationKeys[j] \in DOMAIN link

\* the loop "while links"; [links, err] after it
RECURSIVE PackPool(_, _)
PackPool(links, pool) ==
    IF pool = <<>> THEN [links |-> links, err |-> NoError]
    ELSE
    LET popped == Last(pool)
        rest == Front(pool)
    IN  IF MissingKey(popped) # 0
        THEN [links |-> links,
              err |-> KeyError("_pack_links", CorrelationKeys[MissingKey(popped)])]
        ELSE
        LET link == Without(popped, Range(CorrelationKeys))
            by_intf == Truthy(popped["local_intf_id"]) /\ Truthy(popped["peer_intf_id"])
            by_ip == ~by_intf /\ Truthy(popped["local_ip"]) /\ Truthy(popped["peer_ip"])
            pair == IF by_intf
                    THEN FindPair(rest, 1, "peer_intf_id", "local_intf_id",
                                  popped["local_intf_id"], popped["peer_intf_id"])
                    ELSE IF by_ip
                    THEN FindPair(rest, 1, "peer_ip", "local_ip",
                                  popped["local_ip"], popped["peer_ip"])
                    ELSE [index |-> 0, err |-> NoError]
        IN  IF pair.err # NoError THEN [links |-> links, err |-> pair.err]
            ELSE IF pair.index # 0
            THEN LET done == CombineLinks(links, link, rest[pair.index])
                 IN  IF done.err # NoError THEN done
                     ELSE PackPool(done.links,
                                   RemoveAt(rest, IndexOf(rest, rest[pair.index])))
            ELSE PackPool(_add_link(links, link, EmptyDict), rest)

\* the loop "for hash in self.links_dict.keys()" from entry i on
RECURSIVE PackFrom(_, _)
PackFrom(links, i) ==
    IF i > Len(links) THEN [links |-> links, err |-> NoError]
    ELSE IF Len(links[i].value) <= 1 THEN PackFrom(links, i + 1)
    ELSE LET packed == PackPool(SetItem(links, links[i].key, <<>>), links[i].value)
         IN  IF packed.err # NoError THEN packed
             ELSE PackFrom(packed.links, i + 1)

\* [links, err] after _pack_links()
_pack_links(links) == PackFrom(links, 1)

----------------------------------------------------------------------------
(* Enrichment Lookup *)

\* node after node.update({k: v ... if k in ["top_label", "bottom_label", "label"]})
RidUpdate(node, record) ==
    Merge(node, [k \in DOMAIN record \cap {"top_label", "bottom_label", "label"}
                     |-> record[k]])

\* the loop over self.nodes_dict.values() from entry i on; [nodes, err] after it
RECURSIVE LookupRidFrom(_, _)
LookupRidFrom(nodes, i) ==
    IF i > Len(nodes) THEN [nodes |-> nodes, err |-> NoError]
    ELSE IF "top_label" \notin DOMAIN nodes[i].value
         THEN [nodes |-> nodes, err |-> KeyError("_lookup_rid", "top_label")]
    ELSE LET node_ip == nodes[i].value["top_label"]
         IN  LookupRidFrom(
                 IF node_ip \in DOMAIN ip_lookup_data
                 THEN [nodes EXCEPT ![i].value = RidUpdate(@, ip_lookup_data[node_ip])]
                 ELSE nodes,
                 i + 1)

\* [nodes, err] after _lookup_rid()
_lookup_rid(nodes) == LookupRidFrom(nodes, 1)

\* self.ip_lookup_data.get(ip, {}).get("interface")
LookupInterface(ip) ==
    IF ip \in DOMAIN ip_lookup_data THEN Get(ip_lookup_data[ip], "interface", None)
    ELSE None

\* a label with the interface name put in front of it
WithInterface(label) ==
    Format3(LookupInterface(Split(label, ":")[1]),
            Split(label, ":")[1], Split(label, ":")[2])

\* one pass of the loop body "for link in links": [link, err] after it
LookupLinkLabels(link) ==
    LET src == Get(link, "src_label", None)
        trgt == Get(link, "trgt_label", None)
        src_done ==
            IF Truthy(src) /\ Truthy(LookupInterface(Split(src, ":")[1]))
            THEN With(link, "src_label", WithInterface(src))
            ELSE link
    IN  IF Truthy(src) /\ Len(Split(src, ":")) # 2
        THEN [link |-> link, err |-> ValueError("_lookup_ip_interfaces", "src_label")]
        \* "continue" leaves the target label of this link alone
        ELSE IF Truthy(src) /\ Count(Split(src, ":")[1], ".") # 3
        THEN [link |-> link, err |-> NoError]
        ELSE IF ~Truthy(trgt) THEN [link |-> src_done, err |-> NoError]
        ELSE IF Len(Split(trgt, ":")) # 2
        THEN [link |-> src_done,
              err |-> ValueError("_lookup_ip_interfaces", "trgt_label")]
        ELSE IF Count(Split(trgt, ":")[1], ".") # 3
        THEN [link |-> src_done, err |-> NoError]
        ELSE IF Truthy(LookupInterface(Split(trgt, ":")[1]))
        THEN [link |-> With(src_done, "trgt_label", WithInterface(trgt)),
              err |-> NoError]
        ELSE [link |-> src_done, err |-> NoError]

\* the two loops from link j of group i on; [links, err] after them
RECURSIVE LookupIpFrom(_, _, _)
LookupIpFrom(links, i, j) ==
    IF i > Len(links) THEN [links |-> links, err |-> NoError]
    ELSE IF j > Len(links[i].value) THEN LookupIpFrom(links, i + 1, 1)
    ELSE LET done == LookupLinkLabels(links[i].value[j])
             stored == [links EXCEPT ![i].value[j] = done.link]
         IN  IF done.err # NoError THEN [links |-> stored, err |-> done.err]
             ELSE LookupIpFrom(stored, i, j + 1)

\* [links, err] after _lookup_ip_interfaces()
_lookup_ip_interfaces(links) == LookupIpFrom(links, 1, 1)

----------------------------------------------------------------------------
(* Drawing Sink Adapter *)

\* the links of the groups from entry i on, in order
RECURSIVE Flatten(_, _)
Flatten(links, i) ==
    IF i > Len(links) THEN <<>> ELSE links[i].value \o Flatten(links, i + 1)

\* graph_dict after _update_drawing()
_update_drawing(graph, nodes, links) ==
    [nodes |-> Values(nodes), links |-> graph.links \o Flatten(links, 1)]

----------------------------------------------------------------------------
(* Inputs: the records of the parser and the configurations *)

HostA == <<"A">>
HostB == <<"B">>
\* host names that read like link labels
Host1L1 == <<"1", ":", "L", "1">>
Host2L1 == <<"2", ":", "L", "1">>

Pid1 == <<"1">>
Pid2 == <<"2">>

Level1 == <<"L", "e", "v", "e", "l", "-", "1">>

Ip1 == <<"1", ".", "1", ".", "1", ".", "1">>
Ip2 == <<"2", ".", "2", ".", "2", ".", "2">>
Ip3 == <<"3", ".", "3", ".", "3", ".", "3">>

Net9 == <<"9", ".", "0", ".", "0", ".", "0", "/", "8">>

Metric10 == <<"1", "0">>
Metric20 == <<"2", "0">>
Metric30 == <<"3", "0">>

\* one entry of lsp["links"]; a key given as None is absent
Adjacency(peer_name, metric, local_intf_id, peer_intf_id, local_ip, peer_ip) ==
    LET all == [peer_name |-> peer_name, metric |-> metric,
                local_intf_id |-> local_intf_id, peer_intf_id |-> peer_intf_id,
                local_ip |-> local_ip, peer_ip |-> peer_ip]
    IN  Without(all, {k \in DOMAIN all : all[k] = None})

Network(network, metric) == [network |-> network, metric |-> metric]

Lsp(hostname, rid, links, networks) ==
    [hostname |-> hostname, rid |-> rid, level |-> Level1,
     links |-> links, networks |-> networks]

\* A to B with interface ids and addresses, and its mirror with ids alone
AdjABIntf == Adjacency(HostB, Metric10, <<"1">>, <<"2">>, Ip1, Ip2)
AdjBAIntf == Adjacency(HostA, Metric10, <<"2">>, <<"1">>, None, None)
\* A to B with addresses alone, and its mirror
AdjABIp == Adjacency(HostB, Metric20, None, None, Ip1, Ip2)
AdjBAIp == Adjacency(HostA, Metric20, None, None, Ip2, Ip1)
\* a second link from A to B that nothing mirrors
AdjABThird == Adjacency(HostB, Metric30, <<"3">>, <<"4">>, Ip3, None)
\* a parallel link from A to B over the crossed interfaces: A's 2 to B's 1
AdjABCross == Adjacency(HostB, Metric20, <<"2">>, <<"1">>, None, None)
\* "2:L1" to A under process 1 and A to "1:L1" under process 2: one group
AdjXAIntf == Adjacency(HostA, Metric10, <<"1">>, <<"2">>, None, None)
AdjAXIntf == Adjacency(Host1L1, Metric10, <<"2">>, <<"1">>, None, None)
AdjXAIp == Adjacency(HostA, Metric20, None, None, Ip3, Ip1)
AdjAXIp == Adjacency(Host1L1, Metric20, None, None, Ip1, Ip3)

\* the (isis_pid, lsp) pairs a device record can hold
Inputs ==
    { <<Pid1, Lsp(HostA, Ip1, <<AdjABIntf>>, <<Network(Net9, Metric10)>>)>>,
      <<Pid1, Lsp(HostB, Ip2, <<AdjBAIntf>>, <<>>)>>,
      <<Pid2, Lsp(HostB, Ip2, <<AdjBAIntf>>, <<>>)>>,
      <<Pid1, Lsp(HostA, Ip1, <<AdjABIp>>, <<Network(Net9, Metric20)>>)>>,
      <<Pid1, Lsp(HostB, Ip2, <<AdjBAIp>>, <<>>)>>,
      <<Pid1, Lsp(HostA, Ip1, <<AdjABThird>>, <<>>)>>,
      <<Pid1, Lsp(HostA, Ip1, <<AdjABIntf, AdjABThird>>, <<>>)>>,
      <<Pid1, Lsp(HostA, Ip1, <<AdjABIntf, AdjABCross>>, <<>>)>>,
      <<Pid1, Lsp(Host2L1, Ip3, <<AdjXAIntf, AdjXAIp>>, <<>>)>>,
      <<Pid2, Lsp(HostA, Ip1, <<AdjAXIntf, AdjAXIp>>, <<>>)>> }

\* the values of ptp_filter: none, "9.*" and "2.*", and the empty pattern
PtpFilters ==
    { <<>>,
      << <<"9", ".", "*">>, <<"2", ".", "*">> >>,
      << <<>> >> }

\* the lookup table: 1.1.1.1 with an interface, 2.2.2.2 with a label only
LookupTable ==
    (Ip1 :> [hostname |-> HostA, bottom_label |-> <<"P", "E">>,
             interface |-> <<"G", "i", "1">>])
    @@ (Ip2 :> [hostname |-> HostB, label |-> <<"R", "B">>])

LookupTables == {EmptyDict, LookupTable}

----------------------------------------------------------------------------
(* work(): the steps of one run *)

Init ==
    /\ add_data \in BOOLEAN
    /\ add_connected \in BOOLEAN
    /\ ptp_filter \in PtpFilters
    /\ ip_lookup_data \in LookupTables
    /\ parsed_data = <<>>
    /\ nodes_dict = EmptyDict
    /\ links_dict = EmptyDict
    /\ graph_dict = [nodes |-> <<>>, links |-> <<>>]
    /\ pc = "_form_base_graph_dict"
    /\ err = NoError

Config == <<add_data, add_connected, ptp_filter, ip_lookup_data>>

\* one pass of the innermost loop of _form_base_graph_dict
ProcessLsp ==
    /\ pc = "_form_base_graph_dict"
    /\ Len(parsed_data) < MaxLsps
    /\ \E input \in Inputs :
        LET built == _process_lsp(nodes_dict, links_dict, input[2], input[1])
        IN  /\ parsed_data' = Append(parsed_data, input)
            /\ nodes_dict' = built.nodes
            /\ links_dict' = built.links
    /\ UNCHANGED <<Config, graph_dict, pc, err>>

\* the records are walked: _pack_links(), and what work() runs after it
PackLinks ==
    /\ pc = "_form_base_graph_dict"
    /\ LET packed == _pack_links(links_dict)
       IN  /\ links_dict' = packed.links
           /\ err' = packed.err
           /\ pc' = IF packed.err # NoError THEN "error"
                    ELSE IF ip_lookup_data # EmptyDict THEN "_lookup_rid"
                    ELSE "_update_drawing"
    /\ UNCHANGED <<Config, parsed_data, nodes_dict, graph_dict>>

LookupRid ==
    /\ pc = "_lookup_rid"
    /\ LET looked == _lookup_rid(nodes_dict)
       IN  /\ nodes_dict' = looked.nodes
           /\ err' = looked.err
           /\ pc' = IF looked.err # NoError THEN "error" ELSE "_lookup_ip_interfaces"
    /\ UNCHANGED <<Config, parsed_data, links_dict, graph_dict>>

LookupIpInterfaces ==
    /\ pc = "_lookup_ip_interfaces"
    /\ LET looked == _lookup_ip_interfaces(links_dict)
       IN  /\ links_dict' = looked.links
           /\ err' = looked.err
           /\ pc' = IF looked.err # NoError THEN "error" ELSE "_update_drawing"
    /\ UNCHANGED <<Config, parsed_data, nodes_dict, graph_dict>>

UpdateDrawing ==
    /\ pc = "_update_drawing"
    /\ graph_dict' = _update_drawing(graph_dict, nodes_dict, links_dict)
    /\ pc' = "done"
    /\ UNCHANGED <<Config, parsed_data, nodes_dict, links_dict, err>>

Next ==
    \/ ProcessLsp
    \/ PackLinks
    \/ LookupRid
    \/ LookupIpInterfaces
    \/ UpdateDrawing

Spec == Init /\ [][Next]_vars

----------------------------------------------------------------------------
(* What the properties below speak of *)

BuildStep == "_form_base_graph_dict"

\* the Link Packer has run (to its end or to an exception)
Packed == pc # BuildStep

\* the step that runs _pack_links
IsPackStep == pc = BuildStep /\ pc' # BuildStep

\* every link stored in the groups of a links mapping
LinksIn(links) == UNION {Range(links[g].value) : g \in DOMAIN links}

\* the adjacencies the walked records report: [isis_pid, lsp, link]
Reported ==
    UNION {{[isis_pid |-> parsed_data[i][1], lsp |-> parsed_data[i][2], link |-> a] :
               a \in Range(Get(parsed_data[i][2], "links", <<>>))} :
           i \in DOMAIN parsed_data}

\* the connected subnets the walked records report: [lsp, network]
ReportedNetworks ==
    UNION {{[lsp |-> parsed_data[i][2], network |-> n] :
               n \in Range(Get(parsed_data[i][2], "networks", <<>>))} :
           i \in DOMAIN parsed_data}

\* the local IP of an adjacency matches a configured pattern
MatchesFilter(link) ==
    \E p \in Range(ptp_filter) : fnmatchcase(Get(link, "local_ip", <<>>), p)

\* "<ip-or-intf>:<metric>" of an adjacency
SrcLabelOf(link) ==
    Format2(IF "local_ip" \in DOMAIN link THEN link["local_ip"]
            ELSE IF "local_intf_id" \in DOMAIN link THEN link["local_intf_id"]
            ELSE None,
            link["metric"])

\* a label without the interface name the interface pass may have put in front
PlainLabel(label) ==
    IF Len(Split(label, ":")) = 3
    THEN Format2(Split(label, ":")[2], Split(label, ":")[3])
    ELSE label

----------------------------------------------------------------------------
(* C1 *)

NoTwoEqual(list) ==
    \A i, j \in DOMAIN list : i # j => list[i] # list[j]

\* C1: link insertion is idempotent, add_data on or off: while the Graph
\* Builder walks the records no group of links_dict holds two equal links, so
\* a second report of the same adjacency leaves the group's length unchanged.
C1_NoEqualLinksInGroup ==
    pc = BuildStep =>
        \A g \in DOMAIN links_dict : NoTwoEqual(links_dict[g].value)

----------------------------------------------------------------------------
(* C2 *)

\* the node ids sighted in the walked records
SightedIds ==
    {parsed_data[i][2]["hostname"] : i \in DOMAIN parsed_data}
    \cup (IF add_connected
          THEN {r.network["network"] : r \in ReportedNetworks}
          ELSE {})

----------------------------------------------------------------------------
(* C3 *)

HasCorrelationKeys(link) == Range(CorrelationKeys) \subseteq DOMAIN link

\* the interface-ID correlation test of candidate c against partner p
IntfCorrelated(c, p) ==
    /\ Truthy(c["local_intf_id"]) /\ Truthy(c["peer_intf_id"])
    /\ p["peer_intf_id"] = c["local_intf_id"]
    /\ p["local_intf_id"] = c["peer_intf_id"]

\* the IP correlation test, tried when the candidate lacks an interface id
IpCorrelated(c, p) ==
    /\ ~(Truthy(c["local_intf_id"]) /\ Truthy(c["peer_intf_id"]))
    /\ Truthy(c["local_ip"]) /\ Truthy(c["peer_ip"])
    /\ p["peer_ip"] = c["local_ip"]
    /\ p["local_ip"] = c["peer_ip"]

\* x is made of the raw link: same ends, same source label
MadeOf(x, raw) ==
    /\ x["source"] = raw["source"]
    /\ x["target"] = raw["target"]
    /\ x["src_label"] = raw["src_label"]

\* three raw links of which exactly one pair correlates by interface id
ThreeWithOnePair(group) ==
    /\ Len(group) = 3
    /\ \A i \in 1..3 : HasCorrelationKeys(group[i])
    /\ Cardinality({pair \in SUBSET (1..3) :
           /\ Cardinality(pair) = 2
           /\ \E i, j \in pair :
                  i # j /\ IntfCorrelated(group[i], group[j])}) = 1

\* out holds one merged link and one untouched link, made of the three of group
PackedToTwo(group, out) ==
    /\ Len(out) = 2
    /\ \E m, u \in 1..2 :
        /\ m # u
        /\ "trgt_label" \in DOMAIN out[m]
        /\ "trgt_label" \notin DOMAIN out[u]
        /\ \E c, p, k \in 1..3 :
            /\ Cardinality({c, p, k}) = 3
            /\ MadeOf(out[m], group[c])
            /\ out[m]["trgt_label"] = group[p]["src_label"]
            /\ MadeOf(out[u], group[k])

\* C3: a group of three directional links of which exactly two correlate by
\* interface id is left by the Link Packer with exactly 2 entries, one with
\* trgt_label from its partner's src_label and one without, whatever the
\* order of the three in the list.
C3_ThreeLinksPackToTwo ==
    [][IsPackStep =>
        \A g \in DOMAIN links_dict :
            ThreeWithOnePair(links_dict[g].value) =>
                PackedToTwo(links_dict[g].value, links_dict'[g].value)]_vars

----------------------------------------------------------------------------
(* C4 *)

\* the label the rule gives for "<pid1>:<level>" and "<pid2>:<level>"
RuleLabel(label_1, label_2) ==
    LET pid1 == Split(label_1, ":")[1]
        pid2 == Split(label_2, ":")[1]
        level == Split(label_1, ":")[2]
    IN  IF pid1 # pid2 THEN pid1 \o <<"-">> \o pid2 \o <<":">> \o level
        ELSE pid1 \o <<":">> \o level

\* C4: every merged link the Link Packer stores is made of a candidate and a
\* correlated partner (by interface id or by IP) of the group, and its label
\* is "<pid1>-<pid2>:<level>" when their process ids differ and
\* "<pid1>:<level>" when they are the same.
C4_LabelMergeRule ==
    [][IsPackStep =>
        \A g \in DOMAIN links_dict' :
            \A merged \in Range(links_dict'[g].value) :
                "trgt_label" \in DOMAIN merged =>
                    \E i, j \in DOMAIN links_dict[g].value :
                        LET c == links_dict[g].value[i]
                            p == links_dict[g].value[j]
                        IN  /\ i # j
                            /\ HasCorrelationKeys(c) /\ HasCorrelationKeys(p)
                            /\ IntfCorrelated(c, p) \/ IpCorrelated(c, p)
                            /\ MadeOf(merged, c)
                            /\ merged["trgt_label"] = p["src_label"]
                            /\ merged["label"] = RuleLabel(c["label"], p["label"])]_vars

DashLabels ==
    {<<"1", "-", "2", ":", "L", "1">>, <<"2", "-", "1", ":", "L", "1">>}

\* one group packed to two merged links of processes 1 and 2, one paired by
\* IP (its source label is an address) and one by interface id
C4_Witness ==
    /\ pc = "done"
    /\ \E g \in DOMAIN links_dict :
        \E x, y \in Range(links_dict[g].value) :
            /\ "trgt_label" \in DOMAIN x /\ "trgt_label" \in DOMAIN y
            /\ x["label"] \in DashLabels /\ y["label"] \in DashLabels
            /\ Count(x["src_label"], ".") = 3
            /\ Count(y["src_label"], ".") = 0

----------------------------------------------------------------------------
(* C5 *)

\* the link shows the adjacency of the record r, as its own source or as the
\* partner that gave it trgt_label
Shows(link, r) ==
    \/ /\ link["source"] = r.lsp["hostname"]
       /\ link["target"] = r.link["peer_name"]
       /\ PlainLabel(link["src_label"]) = SrcLabelOf(r.link)
    \/ /\ "trgt_label" \in DOMAIN link
       /\ PlainLabel(link["trgt_label"]) = SrcLabelOf(r.link)
       /\ r.lsp["hostname"] \in {link["source"], link["target"]}

\* C5: filter exclusion: an adjacency whose local IP ("" when absent) matches
\* a pattern of ptp_filter shows in no stored or output link, neither as a
\* link of its own nor as the partner of a merged link; and an adjacency that
\* matches no pattern is stored by the Graph Builder.
C5_FilterExclusion ==
    /\ \A r \in Reported :
           MatchesFilter(r.link) =>
               \A link \in LinksIn(links_dict) \cup Range(graph_dict.links) :
                   ~Shows(link, r)
    /\ pc = BuildStep =>
           \A r \in Reported :
               ~MatchesFilter(r.link) =>
                   \E link \in LinksIn(links_dict) :
                       Without(link, {"description"})
                           = AdjacencyLink(r.lsp, r.isis_pid, r.link)

\* a run to the end over a filtered and an unfiltered adjacency, with output
C5_Witness ==
    /\ pc = "done"
    /\ \E r \in Reported : MatchesFilter(r.link) /\ "local_ip" \in DOMAIN r.link
    /\ \E r \in Reported : ~MatchesFilter(r.link)
    /\ graph_dict.links # <<>>

----------------------------------------------------------------------------
(* C6 *)

\* what the interface pass is to make of one label
RewrittenLabel(label) ==
    LET parts == Split(label, ":")
    IN  IF /\ Len(parts) = 2
           /\ Count(parts[1], ".") = 3
           /\ parts[1] \in DOMAIN ip_lookup_data
           /\ "interface" \in DOMAIN ip_lookup_data[parts[1]]
           /\ ip_lookup_data[parts[1]]["interface"] # <<>>
        THEN ip_lookup_data[parts[1]]["interface"] \o <<":">> \o parts[1]
                 \o <<":">> \o parts[2]
        ELSE label

\* C6: the interface pass treats src_label and trgt_label of every link each
\* on its own: "<ip>:<metric>" with an IPv4-looking ip that the table maps to
\* an interface becomes "<interface>:<ip>:<metric>", any other label stays.
C6_InterfacePass ==
    [][pc = "_lookup_ip_interfaces" =>
        \A g \in DOMAIN links_dict :
            \A k \in DOMAIN links_dict[g].value :
                \A key \in {"src_label", "trgt_label"}
                           \cap DOMAIN links_dict[g].value[k] :
                    /\ key \in DOMAIN links_dict'[g].value[k]
                    /\ links_dict'[g].value[k][key]
                           = RewrittenLabel(links_dict[g].value[k][key])]_vars

----------------------------------------------------------------------------
(* C7 *)

\* C7: with subnet inclusion on, every connected-subnet link the Graph
\* Builder inserted is still stored, unmodified, once the Link Packer has run.
C7_SubnetLinksSurvivePacking ==
    (add_connected /\ Packed) =>
        \A r \in ReportedNetworks :
            SubnetLink(r.lsp, r.network) \in LinksIn(links_dict)

----------------------------------------------------------------------------
(* C8 *)

DisplayKeys == {"label", "top_label", "bottom_label"}

\* C8: the router-ID pass completes over every node mapping; it changes
\* nothing but label, top_label and bottom_label, and those only on nodes
\* whose top label is a key of the lookup table.
C8_RidPass ==
    [][pc = "_lookup_rid" =>
        /\ pc' = "_lookup_ip_interfaces"
        /\ Len(nodes_dict') = Len(nodes_dict)
        /\ \A i \in DOMAIN nodes_dict :
            LET before == nodes_dict[i].value
                after == nodes_dict'[i].value
            IN  /\ nodes_dict'[i].key = nodes_dict[i].key
                /\ \A k \in (DOMAIN before \cup DOMAIN after) \ DisplayKeys :
                       k \in DOMAIN before /\ k \in DOMAIN after
                       /\ after[k] = before[k]
                /\ Get(before, "top_label", None) \notin DOMAIN ip_lookup_data
                       => after = before]_vars

----------------------------------------------------------------------------
(* C9 *)

\* the adjacency b mirrors the adjacency a: by interface ids, or by IPs when
\* a has no interface ids
Mirrors(a, b) ==
    IF Truthy(Get(a, "local_intf_id", None)) /\ Truthy(Get(a, "peer_intf_id", None))
    THEN /\ Get(b, "peer_intf_id", None) = a["local_intf_id"]
         /\ Get(b, "local_intf_id", None) = a["peer_intf_id"]
    ELSE /\ Truthy(Get(a, "local_ip", None)) /\ Truthy(Get(a, "peer_ip", None))
         /\ Get(b, "peer_ip", None) = a["local_ip"]
         /\ Get(b, "local_ip", None) = a["peer_ip"]

\* "<pid1>-<pid2>:<level>" with the level written "L1"
JoinedLabel(pid1, pid2, level) ==
    pid1 \o <<"-">> \o pid2 \o <<":">>
        \o Replace(level, <<"L", "e", "v", "e", "l", "-">>, <<"L">>)

\* C9: when A reports an adjacency to B under one routing process and B the
\* mirrored adjacency to A under another, at the same level, the output holds
\* one bidirectional link between them labelled "<pid>-<pid>:<level>".
C9_CrossProcessPairPacked ==
    pc = "done" =>
        \A r1, r2 \in Reported :
            ( /\ r1.isis_pid # r2.isis_pid
              /\ r1.lsp["level"] = r2.lsp["level"]
              /\ r1.link["peer_name"] = r2.lsp["hostname"]
              /\ r2.link["peer_name"] = r1.lsp["hostname"]
              /\ ~MatchesFilter(r1.link) /\ ~MatchesFilter(r2.link)
              /\ Mirrors(r1.link, r2.link) )
            => \E link \in Range(graph_dict.links) :
                   /\ "trgt_label" \in DOMAIN link
                   /\ {link["source"], link["target"]}
                          = {r1.lsp["hostname"], r2.lsp["hostname"]}
                   /\ link["label"] \in
                          {JoinedLabel(r1.isis_pid, r2.isis_pid, r1.lsp["level"]),
                           JoinedLabel(r2.isis_pid, r1.isis_pid, r1.lsp["level"])}

----------------------------------------------------------------------------
(* C10 *)

\* every group holds the links of one label
OneLabelPerGroup ==
    \A g \in DOMAIN links_dict :
        \A x, y \in Range(links_dict[g].value) : x["label"] = y["label"]

\* C10: with add_data off (no subnet links about, one label per group) the
\* Link Packer ends without an exception, every correlated pair of a group
\* leaves a link with trgt_label in it, and no packed link carries a
\* description.
C10_PackWithoutDescriptions ==
    [][(IsPackStep /\ ~add_data /\ ~add_connected /\ OneLabelPerGroup) =>
        /\ pc' # "error"
        /\ \A g \in DOMAIN links_dict :
            /\ \A link \in Range(links_dict'[g].value) :
                   "description" \notin DOMAIN link
            /\ (\E i, j \in DOMAIN links_dict[g].value :
                    /\ i # j
                    /\ \/ IntfCorrelated(links_dict[g].value[i], links_dict[g].value[j])
                       \/ IpCorrelated(links_dict[g].value[i], links_dict[g].value[j]))
               => \E link \in Range(links_dict'[g].value) :
                      "trgt_label" \in DOMAIN link]_vars

----------------------------------------------------------------------------
(* C11 *)

\* the raw link p runs the other way round than the raw link c
OppositeDirection(c, p) ==
    /\ p["source"] = c["target"]
    /\ p["target"] = c["source"]

\* C11: every merged link the Link Packer stores combines a candidate and a
\* correlated partner of its group that run in opposite directions: the
\* partner's source is the candidate's target and the partner's target is the
\* candidate's source; two links with the same source and the same target are
\* never merged with each other.
C11_MergesOppositeDirections ==
    [][IsPackStep =>
        \A g \in DOMAIN links_dict' :
            \A merged \in Range(links_dict'[g].value) :
                "trgt_label" \in DOMAIN merged =>
                    \E i, j \in DOMAIN links_dict[g].value :
                        LET c == links_dict[g].value[i]
                            p == links_dict[g].value[j]
                        IN  /\ i # j
                            /\ HasCorrelationKeys(c) /\ HasCorrelationKeys(p)
                            /\ IntfCorrelated(c, p) \/ IpCorrelated(c, p)
                            /\ MadeOf(merged, c)
                            /\ merged["trgt_label"] = p["src_label"]
                            /\ OppositeDirection(c, p)]_vars

====
